---------------------------- MODULE Spec2Model ----------------------------
(***************************************************************************)
(* Model of the SID-method signal scanner (src/sidbot_scanner.py).         *)
(*                                                                         *)
(* State: the tables the scanner reads and writes (ticker_reference,       *)
(* market_data as the indicator inputs per symbol, earnings_calendar,      *)
(* the SPY closes, sid_method_signal_watchlist), the scan date, and the    *)
(* position of run_sidbot_scanner in its loop over the symbols.            *)
(*                                                                         *)
(* Units: prices are integers in hundredths (15025 is 150.25); RSI, MACD   *)
(* values are whole numbers; dates are day numbers.                        *)
(***************************************************************************)
EXTENDS Integers, Sequences, FiniteSets, TLC

VARIABLES
    ticker_reference,   \* the symbols of table ticker_reference, in fetch order
    market_data,        \* symbol -> what the daily bars of the symbol give
    earnings_calendar,  \* symbol -> set of report dates
    spy_closes,         \* the closes of SPY, newest first (at most 2 are read)
    watchlist,          \* table sid_method_signal_watchlist: a set of rows
    today,              \* datetime.now().date() as a day number
    pc,                 \* "idle" | "scan" | "done": where run_sidbot_scanner is
    symbols,            \* the list the running scan iterates
    idx,                \* index of the next symbol of the running scan
    spy_up,             \* the running scan's market context
    outcome,            \* symbol -> what the running (or last) scan did with it
    visits,             \* symbol -> iterations of the running scan's loop on it
    prev_watchlist,     \* the watchlist as the running (or last) scan found it
    same_inputs,        \* the running scan reads what the previous one read
    prev_clean,         \* the previous completed scan had no per-symbol error
    runs,               \* run -> where an overlapping run is and what it has read
    overlapped,         \* two runs were at work on the symbol at the same time
    anomalies,          \* what the writes of overlapping runs did to the watchlist
    signal_watchlist,   \* table signal_watchlist, as a select returns its rows
    report,             \* what the last generate_html_report returned
    market_data_1d,     \* table public.market_data_1d: a set of bars
    data_tuples         \* the bars given to the last bulk_upsert_market_data

vars == <<ticker_reference, market_data, earnings_calendar, spy_closes, watchlist,
          today, pc, symbols, idx, spy_up, outcome, visits, prev_watchlist,
          same_inputs, prev_clean, runs, overlapped, anomalies, signal_watchlist,
          report, market_data_1d, data_tuples>>

overlap_vars == <<runs, overlapped, anomalies>>
other_vars == <<signal_watchlist, report, market_data_1d, data_tuples>>

-----------------------------------------------------------------------------
(* Program constants *)

MIN_DAILY_BARS == 50
MIN_WEEKLY_BARS == 15
RSI_LOOKBACK == 28
RSI_OVERSOLD == 30
RSI_OVERBOUGHT == 70
LONG_ROOM == 45
SHORT_ROOM == 55
EARNINGS_WINDOW == 14
NO_EARNINGS_DAYS == 999

PREF_WATCHLIST == {"AAPL"}

\* Python's None where a direction is expected
None == "None"

\* Python's None / SQL null where a number or a date is expected; every number and
\* date of the model is >= 0
Null == 0 - 1

-----------------------------------------------------------------------------
(* Helpers on sequences and numbers *)

\* pandas .iloc[-n:]: the last n values, all of them when there are fewer
ILocTail(s, n) == IF Len(s) <= n THEN s ELSE SubSeq(s, Len(s) - n + 1, Len(s))

Min2(a, b) == IF a <= b THEN a ELSE b
Max2(a, b) == IF a >= b THEN a ELSE b
Abs(a) == IF a >= 0 THEN a ELSE -a

SetMin(S) == CHOOSE x \in S : \A y \in S : x <= y

\* float.is_integer(), math.floor, math.ceil on a price in hundredths
IsInteger(p) == p % 100 = 0
Floor(p) == p - (p % 100)
Ceil(p) == IF p % 100 = 0 THEN p ELSE p - (p % 100) + 100

-----------------------------------------------------------------------------
(* Indicator reads: b is market_data[symbol] *)

curr_rsi(b) == b.rsi[Len(b.rsi)]
prev_rsi(b) == b.rsi[Len(b.rsi) - 1]
curr_macd(b) == b.macd[2]
prev_macd(b) == b.macd[1]

\* the timestamps of the daily bars: one bar on every weekday from ts[1] to ts[2];
\* day 0 of the bar calendar is a Monday, so d % 7 is 0 for Monday .. 4 for Friday
BarDays(ts) == {d \in ts[1]..ts[2] : d % 7 < 5}

\* line 23, resample('W-FRI'): the bucket of a bar is labelled by the Friday on or
\* after its day
WeekEndingFriday(d) == d + ((11 - (d % 7)) % 7)

\* lines 23-25: one weekly row per bucket that holds at least one bar; dropna()
\* drops the weeks without any bar, which a resample leaves as NaN rows
df_weekly(ts) == {WeekEndingFriday(d) : d \in BarDays(ts)}

\* the bug of leaving out the length test of line 26
get_weekly_rsi_resampled_unchecked(b) == <<b.w_rsi[2], b.w_rsi[1]>>

\* get_weekly_rsi_resampled (lines 18-28): (None, None) under 15 weekly rows
get_weekly_rsi_resampled(b) ==
    IF Cardinality(df_weekly(b.timestamps)) < MIN_WEEKLY_BARS THEN <<Null, Null>>
    ELSE <<b.w_rsi[2], b.w_rsi[1]>>

\* the bug of a lookback one value too long
rsi_lookback_29(b) == ILocTail(b.rsi, RSI_LOOKBACK + 1)

rsi_lookback(b) == ILocTail(b.rsi, RSI_LOOKBACK)

\* the bug of reading "below 30" for the oversold touch
touched_oversold_strict(b) ==
    \E i \in DOMAIN rsi_lookback(b) : rsi_lookback(b)[i] < RSI_OVERSOLD

touched_oversold(b) ==
    \E i \in DOMAIN rsi_lookback(b) : rsi_lookback(b)[i] <= RSI_OVERSOLD

touched_overbought(b) ==
    \E i \in DOMAIN rsi_lookback(b) : rsi_lookback(b)[i] >= RSI_OVERBOUGHT

\* the bug of taking the room alone for the signal, no touch of the extreme asked
FreshDirectionNoTouch(b) ==
    IF curr_rsi(b) <= LONG_ROOM THEN "LONG"
    ELSE IF curr_rsi(b) >= SHORT_ROOM THEN "SHORT"
    ELSE None

\* the bug of taking the touch alone for the signal, the room unchecked
FreshDirectionNoRoom(b) ==
    IF touched_oversold(b) THEN "LONG"
    ELSE IF touched_overbought(b) THEN "SHORT"
    ELSE None

\* lines 96-101: the fresh entry signal of this scan, or None
FreshDirection(b) ==
    IF touched_oversold(b) /\ curr_rsi(b) <= LONG_ROOM THEN "LONG"
    ELSE IF touched_overbought(b) /\ curr_rsi(b) >= SHORT_ROOM THEN "SHORT"
    ELSE None

\* line 104: select * where symbol = s
Existing(wl, s) == {r \in wl : r.symbol = s}

\* existing.data[0]
First(rows) == CHOOSE r \in rows : TRUE

\* the bug of giving the stored direction priority over today's signal
FinalDirStoredFirst(direction, existing) ==
    IF existing # {} THEN First(existing).direction ELSE direction

\* line 111
FinalDir(direction, existing) ==
    IF direction # None THEN direction ELSE First(existing).direction

\* the bug of invalidating at the midline 50 instead of the room 45/55
InvalidatedAtMidline(final_dir, b) ==
    \/ final_dir = "LONG" /\ curr_rsi(b) > 50
    \/ final_dir = "SHORT" /\ curr_rsi(b) < 50

\* the bug of testing a LONG against the SHORT room and the reverse
InvalidatedSwappedRooms(final_dir, b) ==
    \/ final_dir = "LONG" /\ curr_rsi(b) > SHORT_ROOM
    \/ final_dir = "SHORT" /\ curr_rsi(b) < LONG_ROOM

\* the bug of dropping a candidate whose daily RSI stopped turning
InvalidatedOrNotTurning(final_dir, b) ==
    \/ final_dir = "LONG" /\ (curr_rsi(b) > LONG_ROOM \/ curr_rsi(b) <= prev_rsi(b))
    \/ final_dir = "SHORT" /\ (curr_rsi(b) < SHORT_ROOM \/ curr_rsi(b) >= prev_rsi(b))

\* line 115
Invalidated(final_dir, b) ==
    \/ final_dir = "LONG" /\ curr_rsi(b) > LONG_ROOM
    \/ final_dir = "SHORT" /\ curr_rsi(b) < SHORT_ROOM

\* the bug of letting a flat indicator pass
SlopeOkNonStrict(final_dir, curr, prev) ==
    IF final_dir = "LONG" THEN curr >= prev ELSE curr <= prev

\* lines 121-123: the gates of "the Turn"
SlopeOk(final_dir, curr, prev) ==
    IF final_dir = "LONG" THEN curr > prev ELSE curr < prev

\* the sign-flip bug: the daily RSI still moving against the trade passes
d_rsi_ok_flipped(final_dir, b) == SlopeOk(final_dir, prev_rsi(b), curr_rsi(b))

d_rsi_ok(final_dir, b) == SlopeOk(final_dir, curr_rsi(b), prev_rsi(b))
w_rsi_ok(final_dir, b) ==
    SlopeOk(final_dir, get_weekly_rsi_resampled(b)[1], get_weekly_rsi_resampled(b)[2])
macd_ok(final_dir, b) == SlopeOk(final_dir, curr_macd(b), prev_macd(b))

\* lines 126-132: the soonest report date on or after the scan date
UpcomingEarnings(dates, day) == {d \in dates : d >= day}

next_earnings_date(dates, day) ==
    IF UpcomingEarnings(dates, day) = {} THEN Null
    ELSE SetMin(UpcomingEarnings(dates, day))

days_to_earnings(dates, day) ==
    IF UpcomingEarnings(dates, day) = {} THEN NO_EARNINGS_DAYS
    ELSE next_earnings_date(dates, day) - day

\* the bug of ending the blackout one day early: a report 14 days ahead passes
earnings_ok_from_14(dates, day) == days_to_earnings(dates, day) >= EARNINGS_WINDOW

earnings_ok(dates, day) == days_to_earnings(dates, day) > EARNINGS_WINDOW

\* line 135
IsReady(final_dir, b, dates, day) ==
    /\ d_rsi_ok(final_dir, b)
    /\ w_rsi_ok(final_dir, b)
    /\ macd_ok(final_dir, b)
    /\ earnings_ok(dates, day)

\* lines 31-39
detect_reversal_pattern(b, direction) ==
    LET body == Abs(b.close - b.open)
        wick_high == b.high - Max2(b.open, b.close)
        wick_low == Min2(b.open, b.close) - b.low
    IN  IF direction = "LONG"
        THEN (IF wick_low > body * 2 /\ wick_high < body THEN 1 ELSE 0)
        ELSE (IF wick_high > body * 2 /\ wick_low < body THEN 1 ELSE 0)

\* lines 42-50
detect_macd_crossover(b, direction) ==
    IF direction = "LONG"
    THEN (IF b.macd[1] < b.signal[1] /\ b.macd[2] > b.signal[2] THEN 1 ELSE 0)
    ELSE (IF b.macd[1] > b.signal[1] /\ b.macd[2] < b.signal[2] THEN 1 ELSE 0)

\* lines 52-54
is_on_preferred_watchlist(symbol) == symbol \in PREF_WATCHLIST

\* line 66
SpyUp(closes) == IF Len(closes) > 1 THEN closes[1] > closes[2] ELSE TRUE

\* the bug of reading the reference instrument's rise as alignment for SHORT too
SpyAlignmentAnyDirection(final_dir, up) == up

\* line 140
SpyAlignment(final_dir, up) == IF final_dir = "LONG" THEN up ELSE ~up

BoolInt(x) == IF x THEN 1 ELSE 0

\* the bug of min and max swapped: the looser of the stored and the current
\* extreme is kept
ExtPriceLooserKept(final_dir, b, existing) ==
    LET ext_price == IF final_dir = "LONG" THEN b.low ELSE b.high
    IN  IF existing # {} /\ First(existing).extreme_price # Null
        THEN (IF final_dir = "LONG"
              THEN Max2(b.low, First(existing).extreme_price)
              ELSE Min2(b.high, First(existing).extreme_price))
        ELSE ext_price

\* the bug of leaving out the test of line 155: a null extreme is compared
ExtPriceNullCompared(final_dir, b, existing) ==
    LET ext_price == IF final_dir = "LONG" THEN b.low ELSE b.high
    IN  IF existing # {}
        THEN (IF final_dir = "LONG"
              THEN Min2(b.low, First(existing).extreme_price)
              ELSE Max2(b.high, First(existing).extreme_price))
        ELSE ext_price

\* the bug of dropping the trailing: the extreme follows the current bar
ExtPriceCurrentBar(final_dir, b, existing) ==
    IF final_dir = "LONG" THEN b.low ELSE b.high

\* lines 152-162: the trailing extreme
ExtPrice(final_dir, b, existing) ==
    LET ext_price == IF final_dir = "LONG" THEN b.low ELSE b.high
    IN  IF existing # {} /\ First(existing).extreme_price # Null
        THEN (IF final_dir = "LONG"
              THEN Min2(b.low, First(existing).extreme_price)
              ELSE Max2(b.high, First(existing).extreme_price))
        ELSE ext_price

\* the bug of always stepping one unit past the rounded extreme
calculate_formatted_stop_stepped(price, direction) ==
    IF direction = "LONG" THEN Floor(price) - 100 ELSE Ceil(price) + 100

\* the bug of plain rounding: a whole extreme is its own stop
calculate_formatted_stop_plain(price, direction) ==
    IF direction = "LONG" THEN Floor(price) ELSE Ceil(price)

\* lines 166-170
calculate_formatted_stop(price, direction) ==
    IF direction = "LONG"
    THEN (IF IsInteger(price) THEN price - 100 ELSE Floor(price))
    ELSE (IF IsInteger(price) THEN price + 100 ELSE Ceil(price))

\* lines 144-149
LogicTrail(final_dir, b) ==
    [d_rsi |-> curr_rsi(b),
     w_rsi |-> get_weekly_rsi_resampled(b)[1],
     macd_ready |-> macd_ok(final_dir, b),
     touched_extreme |-> IF final_dir = "LONG" THEN touched_oversold(b)
                         ELSE touched_overbought(b)]

\* lines 175-190: the row the scan upserts
NewRow(symbol, final_dir, b, existing, dates, day, up) ==
    LET macd_cross == detect_macd_crossover(b, final_dir) = 1
        pattern_confirmed == detect_reversal_pattern(b, final_dir) = 1
        spy_alignment == SpyAlignment(final_dir, up)
        preferred_watchlist == is_on_preferred_watchlist(symbol)
        ext_price == ExtPrice(final_dir, b, existing)
    IN  [symbol |-> symbol,
         direction |-> final_dir,
         extreme_price |-> ext_price,
         stop_loss |-> calculate_formatted_stop(ext_price, final_dir),
         entry_price |-> b.close,
         market_score |-> BoolInt(macd_cross) + BoolInt(pattern_confirmed)
                          + BoolInt(spy_alignment) + BoolInt(preferred_watchlist),
         macd_cross |-> macd_cross,
         pattern_confirmed |-> pattern_confirmed,
         spy_alignment |-> spy_alignment,
         is_ready |-> IsReady(final_dir, b, dates, day),
         last_updated |-> day,
         next_earnings |-> next_earnings_date(dates, day),
         logic_trail |-> LogicTrail(final_dir, b),
         preferred_watchlist |-> preferred_watchlist]

\* the bug of a plain insert: the row of the symbol is not replaced
UpsertAsInsert(wl, row) == wl \cup {row}

\* upsert(..., on_conflict="symbol") and delete().eq("symbol", ...)
Upsert(wl, row) == {r \in wl : r.symbol # row.symbol} \cup {row}
Delete(wl, s) == {r \in wl : r.symbol # s}

-----------------------------------------------------------------------------
(* One iteration of the loop of run_sidbot_scanner (lines 68-193).          *)
(* fault names the call that raises in this iteration, if it is reached;    *)
(* the except clause of line 192 logs it and the loop goes on.              *)

Faults == {"none", "fetch", "indicators", "select", "delete", "earnings", "upsert"}

Result(o, wl) == [outcome |-> o, watchlist |-> wl]

\* the bug of replacing a row by a delete followed by an insert, the delete made
\* before the earnings query
DecideDeleteThenInsert(wl, s, b, dates, day, up, fault, direction, existing) ==
    LET final_dir == FinalDir(direction, existing)
    IN  IF Invalidated(final_dir, b)
        THEN (IF fault = "delete" THEN Result("error", wl)
              ELSE Result("deleted", Delete(wl, s)))
        ELSE IF fault \in {"earnings", "upsert"} THEN Result("error", Delete(wl, s))
        ELSE Result("upserted",
                    Upsert(wl, NewRow(s, final_dir, b, existing, dates, day, up)))

\* the bug of cleaning up on the stored direction before today's signal counts
DecideCleanupFirst(wl, s, b, dates, day, up, fault, direction, existing) ==
    LET final_dir == FinalDir(direction, existing)
    IN  IF existing # {} /\ Invalidated(First(existing).direction, b)
        THEN (IF fault = "delete" THEN Result("error", wl)
              ELSE Result("deleted", Delete(wl, s)))
        ELSE IF fault \in {"earnings", "upsert"} THEN Result("error", wl)
        ELSE Result("upserted",
                    Upsert(wl, NewRow(s, final_dir, b, existing, dates, day, up)))

\* lines 113-190, once direction and existing are known
Decide(wl, s, b, dates, day, up, fault, direction, existing) ==
    LET final_dir == FinalDir(direction, existing)
    IN  IF Invalidated(final_dir, b)
        THEN (IF fault = "delete" THEN Result("error", wl)
              ELSE Result("deleted", Delete(wl, s)))
        ELSE IF fault \in {"earnings", "upsert"} THEN Result("error", wl)
        ELSE Result("upserted",
                    Upsert(wl, NewRow(s, final_dir, b, existing, dates, day, up)))

ProcessSymbol(wl, s, b, dates, day, up, fault) ==
    IF fault = "fetch" THEN Result("error", wl)
    ELSE IF b.nbars < MIN_DAILY_BARS THEN Result("short_history", wl)
    ELSE IF fault = "indicators" THEN Result("error", wl)
    ELSE IF get_weekly_rsi_resampled(b)[1] = Null THEN Result("no_weekly", wl)
    ELSE IF fault = "select" THEN Result("error", wl)
    ELSE IF FreshDirection(b) = None /\ Existing(wl, s) = {}
         THEN Result("no_signal", wl)
    ELSE Decide(wl, s, b, dates, day, up, fault, FreshDirection(b), Existing(wl, s))

-----------------------------------------------------------------------------
(* Overlapping runs: the iteration of lines 68-193 is not one step. A run   *)
(* reads the bars (line 71), later reads the stored row (line 104), later   *)
(* deletes or upserts (lines 117, 175) with what it has read, and nothing   *)
(* keeps another run or the ingestion from writing in between.              *)

RunIds == {"A", "B"}

\* a run between two iterations
Resting == [at |-> "idle", bars |-> None, existing |-> {}]

\* lines 107-190 with the bars and the stored row read earlier, on the table as
\* it is now
WriteOf(wl, s, b, dates, day, up, existing) ==
    IF b.nbars < MIN_DAILY_BARS \/ get_weekly_rsi_resampled(b)[1] = Null THEN wl
    ELSE IF FreshDirection(b) = None /\ existing = {} THEN wl
    ELSE Decide(wl, s, b, dates, day, up, "none", FreshDirection(b), existing).watchlist

\* extreme_price e is a looser stop reference than f for a row of direction d
Looser(d, e, f) == IF d = "LONG" THEN e > f ELSE e < f

\* what a write did that no write of a run working alone does: it replaced a row
\* by one of the same direction with a looser extreme_price, or it wrote a row,
\* with no fresh signal, for a symbol whose row was deleted after the run read it
AnomaliesOf(wl, wl2, s, b, existing) ==
    {"loosened" : x \in {<<p, q>> \in Existing(wl, s) \X Existing(wl2, s) :
                           /\ p.direction = q.direction
                           /\ Looser(q.direction, q.extreme_price, p.extreme_price)}}
    \cup
    {"recreated" : x \in {q \in Existing(wl2, s) :
                            /\ Existing(wl, s) = {}
                            /\ existing # {}
                            /\ FreshDirection(b) = None}}

\* line 71: run r fetches the bars of the symbol
RunFetch(r, s) ==
    /\ runs[r].at = "idle"
    /\ runs' = [runs EXCEPT ![r] = [at |-> "fetched", bars |-> market_data[s],
                                    existing |-> {}]]
    /\ overlapped' = (overlapped \/ \E o \in RunIds \ {r} : runs[o].at # "idle")
    /\ UNCHANGED <<ticker_reference, market_data, earnings_calendar, spy_closes,
                   watchlist, today, pc, symbols, idx, spy_up, outcome, visits,
                   prev_watchlist, same_inputs, prev_clean, anomalies>>
    /\ UNCHANGED other_vars

\* line 104: run r reads the stored row of the symbol
RunSelect(r, s) ==
    /\ runs[r].at = "fetched"
    /\ runs' = [runs EXCEPT ![r] = [at |-> "selected", bars |-> runs[r].bars,
                                    existing |-> Existing(watchlist, s)]]
    /\ UNCHANGED <<ticker_reference, market_data, earnings_calendar, spy_closes,
                   watchlist, today, pc, symbols, idx, spy_up, outcome, visits,
                   prev_watchlist, same_inputs, prev_clean, overlapped, anomalies>>
    /\ UNCHANGED other_vars

\* lines 107-190: run r skips, deletes or upserts, and its iteration is over
RunWrite(r, s) ==
    /\ runs[r].at = "selected"
    /\ watchlist' = WriteOf(watchlist, s, runs[r].bars, earnings_calendar[s], today,
                            spy_up, runs[r].existing)
    /\ anomalies' = anomalies \cup AnomaliesOf(watchlist, watchlist', s, runs[r].bars,
                                               runs[r].existing)
    /\ runs' = [runs EXCEPT ![r] = Resting]
    /\ UNCHANGED <<ticker_reference, market_data, earnings_calendar, spy_closes,
                   today, pc, symbols, idx, spy_up, outcome, visits,
                   prev_watchlist, same_inputs, prev_clean, overlapped>>
    /\ UNCHANGED other_vars

\* the ingestion scripts replace the bars of the symbol at any time
Ingest(BarsDomain, s) ==
    /\ \E b \in BarsDomain : market_data' = [market_data EXCEPT ![s] = b]
    /\ UNCHANGED <<ticker_reference, earnings_calendar, spy_closes,
                   watchlist, today, pc, symbols, idx, spy_up, outcome, visits,
                   prev_watchlist, same_inputs, prev_clean>>
    /\ UNCHANGED overlap_vars
    /\ UNCHANGED other_vars

-----------------------------------------------------------------------------
(* Actions *)

SymbolSet(seq) == {seq[i] : i \in DOMAIN seq}

\* lines 57-66: the run starts, reads the symbols and the market context
StartScan ==
    /\ pc \in {"idle", "done"}
    /\ pc' = "scan"
    /\ symbols' = ticker_reference
    /\ spy_up' = SpyUp(spy_closes)
    /\ idx' = 1
    /\ outcome' = [s \in DOMAIN outcome |-> "pending"]
    /\ visits' = [s \in DOMAIN visits |-> 0]
    /\ same_inputs' = (pc = "done")
    /\ prev_watchlist' = watchlist
    /\ prev_clean' = (\A s \in DOMAIN outcome : outcome[s] # "error")
    /\ UNCHANGED <<ticker_reference, market_data, earnings_calendar, spy_closes,
                   watchlist, today>>
    /\ UNCHANGED overlap_vars
    /\ UNCHANGED other_vars

\* the bug of an except clause outside the loop: an error ends the run
NextIndexAbort(i, o, n) == IF o = "error" THEN n + 1 ELSE i + 1

\* lines 68-69, 192-193: the for loop goes to the next symbol whatever the
\* iteration did (continue, write, or an exception caught inside the loop)
NextIndex(i, o, n) == i + 1

\* lines 68-193: one symbol, where the calls that can raise are those of Raising
Iteration(Raising) ==
    /\ pc = "scan"
    /\ idx <= Len(symbols)
    /\ \E fault \in Raising :
         LET s == symbols[idx]
             res == ProcessSymbol(watchlist, s, market_data[s], earnings_calendar[s],
                                  today, spy_up, fault)
         IN  /\ watchlist' = res.watchlist
             /\ outcome' = [outcome EXCEPT ![s] = res.outcome]
             /\ visits' = [visits EXCEPT ![s] = @ + 1]
             /\ idx' = NextIndex(idx, res.outcome, Len(symbols))
    /\ UNCHANGED <<ticker_reference, market_data, earnings_calendar, spy_closes,
                   today, pc, symbols, spy_up, prev_watchlist, same_inputs, prev_clean>>
    /\ UNCHANGED overlap_vars
    /\ UNCHANGED other_vars

\* any call of the iteration can raise
ScanSymbol == Iteration(Faults)

\* the loop is exhausted and run_sidbot_scanner returns
EndScan ==
    /\ pc = "scan"
    /\ idx > Len(symbols)
    /\ pc' = "done"
    /\ UNCHANGED <<ticker_reference, market_data, earnings_calendar, spy_closes,
                   watchlist, today, symbols, idx, spy_up, outcome, visits,
                   prev_watchlist, same_inputs, prev_clean>>
    /\ UNCHANGED overlap_vars
    /\ UNCHANGED other_vars

\* what the model remembers of the last run no longer describes the tables once
\* they changed
Forget ==
    /\ outcome' = [s \in DOMAIN outcome |-> "pending"]
    /\ visits' = [s \in DOMAIN visits |-> 0]
    /\ prev_watchlist' = {}
    /\ same_inputs' = FALSE
    /\ prev_clean' = TRUE

\* between runs the ingestion scripts replace what the tables give for a symbol
NewData(BarsDomain, EarningsDomain, SpyDomain) ==
    /\ pc # "scan"
    /\ pc' = "idle"
    /\ \E s \in SymbolSet(ticker_reference), b \in BarsDomain, e \in EarningsDomain,
          sp \in SpyDomain :
         /\ market_data' = [market_data EXCEPT ![s] = b]
         /\ earnings_calendar' = [earnings_calendar EXCEPT ![s] = e]
         /\ spy_closes' = sp
    /\ Forget
    /\ UNCHANGED <<ticker_reference, watchlist, today, symbols, idx, spy_up>>
    /\ UNCHANGED overlap_vars
    /\ UNCHANGED other_vars

\* between runs the date advances
AdvanceDay(Steps, MaxDate) ==
    /\ pc # "scan"
    /\ pc' = "idle"
    /\ \E k \in Steps : today + k <= MaxDate /\ today' = today + k
    /\ Forget
    /\ UNCHANGED <<ticker_reference, market_data, earnings_calendar, spy_closes,
                   watchlist, symbols, idx, spy_up>>
    /\ UNCHANGED overlap_vars
    /\ UNCHANGED other_vars

Scan == StartScan \/ ScanSymbol \/ EndScan

-----------------------------------------------------------------------------
(* sidbot_reporter.py: generate_html_report (lines 29-156)                  *)

NoReport ==
    [made |-> FALSE, query_ok |-> FALSE, data |-> <<>>, confirmed_rows |-> <<>>,
     potential_rows |-> <<>>, ready_count |-> 0]

\* lines 96-108: what a table row of the report shows of a watchlist row; line 102
\* prints a missing extreme_price as 0
html_row(row) ==
    [symbol |-> row.symbol, direction |-> row.direction,
     extreme_price |-> IF row.extreme_price = Null THEN 0 ELSE row.extreme_price]

\* lines 48-112, from the i-th row of data on. The loop of line 87 runs over the
\* whole of data inside the loop of line 48 and binds the same names: when it
\* ends, row and html_row are those of the last row of data, and lines 109-112
\* test and append them
RECURSIVE ReportLoop(_, _, _)
ReportLoop(data, i, acc) ==
    IF i > Len(data) THEN acc
    ELSE LET outer == data[i]
             row == data[Len(data)]
         IN  ReportLoop(data, i + 1,
                 [acc EXCEPT
                    !.ready_count = @ + BoolInt(outer.is_ready),
                    !.confirmed_rows = IF row.is_ready THEN Append(@, html_row(row))
                                       ELSE @,
                    !.potential_rows = IF row.is_ready THEN @
                                       ELSE Append(@, html_row(row))])

\* lines 33-112; query_ok is false when the select of line 37 raises
ReportOf(table, query_ok) ==
    LET data == IF query_ok THEN table ELSE <<>>
    IN  ReportLoop(data, 1, [NoReport EXCEPT !.made = TRUE, !.query_ok = query_ok,
                                            !.data = data])

\* the report is generated from table signal_watchlist (line 37)
GenerateReport ==
    /\ pc # "scan"
    /\ \E query_ok \in BOOLEAN : report' = ReportOf(signal_watchlist, query_ok)
    /\ UNCHANGED <<ticker_reference, market_data, earnings_calendar, spy_closes,
                   watchlist, today, pc, symbols, idx, spy_up, outcome, visits,
                   prev_watchlist, same_inputs, prev_clean>>
    /\ UNCHANGED overlap_vars
    /\ UNCHANGED <<signal_watchlist, market_data_1d, data_tuples>>

-----------------------------------------------------------------------------
(* populate_db.py: bulk_upsert_market_data (lines 42-72)                    *)

\* the conflict target of line 55
BarKey(t) == <<t.symbol, t.timestamp, t.timeframe>>

\* lines 55-61: what DO UPDATE SET makes of the stored bar; open is not assigned
OnConflict(stored, excluded) ==
    [stored EXCEPT !.close = excluded.close,
                   !.high = Max2(stored.high, excluded.high),
                   !.low = Min2(stored.low, excluded.low),
                   !.volume = stored.volume + excluded.volume,
                   !.vwap = excluded.vwap,
                   !.trade_count = excluded.trade_count]

\* one tuple of the INSERT
UpsertBar(table, t) ==
    IF \E x \in table : BarKey(x) = BarKey(t)
    THEN {IF BarKey(x) = BarKey(t) THEN OnConflict(x, t) ELSE x : x \in table}
    ELSE table \cup {t}

RECURSIVE UpsertBars(_, _, _)
UpsertBars(table, tuples, i) ==
    IF i > Len(tuples) THEN table
    ELSE UpsertBars(UpsertBar(table, tuples[i]), tuples, i + 1)

\* the statement would update a stored bar twice: the database raises
SameKeyTwice(tuples) ==
    \E i, k \in DOMAIN tuples : i # k /\ BarKey(tuples[i]) = BarKey(tuples[k])

\* lines 44-72: no connection, or an exception and the rollback of line 69, leave
\* the table as it was; one INSERT carries all the tuples
bulk_upsert_market_data(table, tuples, connected) ==
    IF ~connected \/ SameKeyTwice(tuples) THEN table
    ELSE UpsertBars(table, tuples, 1)

\* an ingestion script calls bulk_upsert_market_data
BulkUpsert(Batches, MaxStored) ==
    /\ \E tuples \in Batches, connected \in BOOLEAN :
         /\ data_tuples' = tuples
         /\ market_data_1d' = bulk_upsert_market_data(market_data_1d, tuples, connected)
    /\ \A x \in market_data_1d' : x.volume <= MaxStored
    /\ UNCHANGED <<ticker_reference, market_data, earnings_calendar, spy_closes,
                   watchlist, today, pc, symbols, idx, spy_up, outcome, visits,
                   prev_watchlist, same_inputs, prev_clean>>
    /\ UNCHANGED overlap_vars
    /\ UNCHANGED <<signal_watchlist, report>>

-----------------------------------------------------------------------------
(* Input domains *)

\* the tail of the daily RSI series: one value older than the lookback, then the
\* 28 values of the lookback (older, 25 values of 50, previous, current)
Series(old, older, prev, curr) ==
    <<old, older>> \o [i \in 1..25 |-> 50] \o <<prev, curr>>

\* the bars of a history: len(daily_data.data) and the timestamps
History(b, first, last) ==
    [b EXCEPT !.timestamps = <<first, last>>,
              !.nbars = Cardinality(BarDays(<<first, last>>))]

\* 100 bars: the 20 weeks from a Monday to a Friday
BaseBars ==
    History([nbars |-> 0, timestamps |-> <<0, 0>>, rsi |-> Series(50, 50, 50, 50),
             macd |-> <<0, 0>>, signal |-> <<0, 0>>, w_rsi |-> <<50, 50>>,
             open |-> 15000, high |-> 15100, low |-> 14900, close |-> 15000],
            0, 137)

\* 49 bars: 9 weeks and Monday to Thursday of the tenth
ShortHistory == History([BaseBars EXCEPT !.rsi = Series(50, 50, 32, 28)], 0, 66)
\* 70 bars: 14 weeks from a Monday to a Friday
NoWeekly == History([BaseBars EXCEPT !.rsi = Series(50, 50, 32, 28)], 0, 95)

\* the tables the scanner reads and writes, the watchlist holding the rows of
\* stored, and no run at work
InitScanner(tickers, bars, dates, spy, stored) ==
    /\ ticker_reference = tickers
    /\ market_data = [s \in SymbolSet(tickers) |-> bars]
    /\ earnings_calendar = [s \in SymbolSet(tickers) |-> dates]
    /\ spy_closes = spy
    /\ watchlist = stored
    /\ today = 1
    /\ pc = "idle"
    /\ symbols = <<>>
    /\ idx = 1
    /\ spy_up = TRUE
    /\ outcome = [s \in SymbolSet(tickers) |-> "pending"]
    /\ visits = [s \in SymbolSet(tickers) |-> 0]
    /\ prev_watchlist = {}
    /\ runs = [r \in RunIds |-> Resting]
    /\ overlapped = FALSE
    /\ anomalies = {}
    /\ same_inputs = FALSE
    /\ prev_clean = TRUE

InitWith(tickers, bars, dates, spy) ==
    /\ InitScanner(tickers, bars, dates, spy, {})
    /\ signal_watchlist = <<>>
    /\ report = NoReport
    /\ market_data_1d = {}
    /\ data_tuples = <<>>

-----------------------------------------------------------------------------
(* SpecEntry: one symbol, the RSI series varies (entry, room, lookback) *)

EntryOld == {<<50, 50>>, <<28, 50>>, <<50, 28>>, <<72, 50>>, <<50, 72>>}
EntryPrev == {28, 32, 72}
EntryCurr == {28, 30, 45, 46, 54, 55, 70}

EntryBars ==
    {[BaseBars EXCEPT !.rsi = Series(o[1], o[2], p, c), !.macd = <<0, 1>>,
                      !.w_rsi = <<40, 50>>] :
        o \in EntryOld, p \in EntryPrev, c \in EntryCurr}
    \cup {ShortHistory, NoWeekly}

InitEntry == InitWith(<<"AAPL">>, BaseBars, {}, <<2, 1>>)
NextEntry == Scan \/ NewData(EntryBars, {{}}, {<<2, 1>>})
SpecEntry == InitEntry /\ [][NextEntry]_vars

-----------------------------------------------------------------------------
(* SpecGates: one symbol, the inputs of the four gates vary *)

\* <<previous, current>> daily RSI: rising, falling and flat at each extreme, and
\* one with no touch, under which a stored LONG row keeps its direction
GatesRsi == {<<28, 30>>, <<32, 28>>, <<28, 28>>, <<72, 70>>, <<70, 72>>, <<70, 70>>,
             <<32, 40>>}
GatesWeekly == {<<40, 50>>, <<50, 40>>, <<50, 50>>}
GatesMacd == {<<0, 1>>, <<1, 0>>, <<1, 1>>}
\* today is 1: no report, a report 14 days ahead, a report 15 days ahead
GatesEarnings == {{}, {15}, {16}}

GatesBars ==
    {[BaseBars EXCEPT !.rsi = Series(50, 50, r[1], r[2]), !.macd = m, !.w_rsi = w] :
        r \in GatesRsi, w \in GatesWeekly, m \in GatesMacd}

InitGates == InitWith(<<"AAPL">>, BaseBars, {}, <<2, 1>>)
NextGates == Scan \/ NewData(GatesBars, GatesEarnings, {<<2, 1>>})
SpecGates == InitGates /\ [][NextGates]_vars

-----------------------------------------------------------------------------
(* SpecPrice: one symbol, the last bar's low and high vary; the RSI series  *)
(* gives a fresh LONG, a fresh SHORT, or no fresh signal in either room     *)

PriceRsi == {Series(50, 50, 32, 30), Series(50, 50, 68, 70),
             Series(50, 50, 50, 40), Series(50, 50, 50, 60)}
PriceLevels == {14950, 15000, 15025}

PriceRanges == {x \in PriceLevels \X PriceLevels : x[1] <= x[2]}

PriceBars ==
    {[BaseBars EXCEPT !.rsi = r, !.low = x[1], !.high = x[2], !.open = x[1],
                      !.close = x[2]] : r \in PriceRsi, x \in PriceRanges}
    \cup {ShortHistory, NoWeekly}

InitPrice == InitWith(<<"AAPL">>, BaseBars, {}, <<2, 1>>)
NextPrice == Scan \/ NewData(PriceBars, {{}}, {<<2, 1>>})
SpecPrice == InitPrice /\ [][NextPrice]_vars

-----------------------------------------------------------------------------
(* Spec: two symbols; each gets a fresh LONG or SHORT at one of two price   *)
(* ranges, no fresh signal in either room, or too short a history           *)

RunRsi == {Series(50, 50, 32, 30), Series(50, 50, 68, 70)}
RunRanges == {<<14950, 15000>>, <<15000, 15025>>}

RunBars ==
    {[BaseBars EXCEPT !.rsi = r, !.low = x[1], !.high = x[2], !.open = x[1],
                      !.close = x[2]] : r \in RunRsi, x \in RunRanges}
    \cup {[BaseBars EXCEPT !.rsi = Series(50, 50, 50, 40)],
          [BaseBars EXCEPT !.rsi = Series(50, 50, 50, 60)],
          ShortHistory}

Init == InitWith(<<"AAPL", "MSFT">>, BaseBars, {}, <<2, 1>>)
Next == Scan \/ NewData(RunBars, {{}}, {<<2, 1>>})
Spec == Init /\ [][Next]_vars

-----------------------------------------------------------------------------
(* SpecFair: two symbols and three inputs; a run that has started goes on,  *)
(* since nothing in the loop waits                                          *)

FairBars ==
    {[BaseBars EXCEPT !.rsi = Series(50, 50, 32, 30)],
     [BaseBars EXCEPT !.rsi = Series(50, 50, 50, 60)],
     ShortHistory}

NextFair == Scan \/ NewData(FairBars, {{}}, {<<2, 1>>})
SpecFair == Init /\ [][NextFair]_vars /\ WF_vars(ScanSymbol) /\ WF_vars(EndScan)

-----------------------------------------------------------------------------
(* SpecTime: one symbol, the date advances between runs *)

MaxDay == 31
DaySteps == {1, 29}

TimeBars ==
    {[BaseBars EXCEPT !.rsi = Series(50, 50, 32, 30)],
     [BaseBars EXCEPT !.rsi = Series(50, 50, 50, 40)],
     ShortHistory}

InitTime == InitWith(<<"AAPL">>, BaseBars, {}, <<2, 1>>)
NextTime == Scan \/ NewData(TimeBars, {{}}, {<<2, 1>>}) \/ AdvanceDay(DaySteps, MaxDay)
SpecTime == InitTime /\ [][NextTime]_vars

-----------------------------------------------------------------------------
(* SpecEarnings: one symbol, the report dates vary; the slopes are all in   *)
(* favour of the direction, or the MACD line is flat                        *)

\* today is 1: no date, a past date only, a report today, 7, 14 and 15 days
\* ahead, a past date with a report 15 days ahead, a report 7 and one 29 days ahead
EarningsDates == {{}, {0}, {1}, {8}, {15}, {16}, {0, 16}, {8, 30}}

EarningsBars ==
    {[BaseBars EXCEPT !.rsi = Series(50, 50, 28, 30), !.w_rsi = <<40, 50>>,
                      !.macd = <<0, 1>>],
     [BaseBars EXCEPT !.rsi = Series(50, 50, 28, 30), !.w_rsi = <<40, 50>>,
                      !.macd = <<1, 1>>],
     [BaseBars EXCEPT !.rsi = Series(50, 50, 72, 70), !.w_rsi = <<50, 40>>,
                      !.macd = <<1, 0>>]}

InitEarnings == InitWith(<<"AAPL">>, BaseBars, {}, <<2, 1>>)
NextEarnings == Scan \/ NewData(EarningsBars, EarningsDates, {<<2, 1>>})
SpecEarnings == InitEarnings /\ [][NextEarnings]_vars

-----------------------------------------------------------------------------
(* SpecWeekly: one symbol, the span of the daily history varies             *)

\* <<first day, last day>>, day 0 a Monday: 14 weeks to a Friday; the same and
\* the Monday after; the same and Monday to Thursday after; 15 weeks to a Friday;
\* 20 weeks to a Friday
WeeklyHistories == {<<0, 95>>, <<0, 98>>, <<0, 101>>, <<0, 102>>, <<0, 137>>}

WeeklyBars ==
    {History([BaseBars EXCEPT !.rsi = Series(50, 50, r[1], r[2]), !.w_rsi = <<40, 50>>,
                              !.macd = <<0, 1>>], h[1], h[2]) :
        r \in {<<28, 30>>, <<72, 70>>, <<32, 40>>}, h \in WeeklyHistories}

InitWeekly == InitWith(<<"AAPL">>, BaseBars, {}, <<2, 1>>)
NextWeekly == Scan \/ NewData(WeeklyBars, {{}}, {<<2, 1>>})
SpecWeekly == InitWeekly /\ [][NextWeekly]_vars

-----------------------------------------------------------------------------
(* SpecScore: one symbol, the closes of the reference instrument vary; the  *)
(* MACD line crosses its signal line or not                                 *)

\* newest first, as the query of lines 64-65 orders them: no bar, one bar, a rise
\* and a fall
SpyCloses == {<<>>, <<1>>, <<2, 1>>, <<1, 2>>}

ScoreBars ==
    {[BaseBars EXCEPT !.rsi = Series(50, 50, r[1], r[2]), !.w_rsi = <<40, 50>>,
                      !.macd = m, !.signal = <<1, 1>>] :
        r \in {<<28, 30>>, <<72, 70>>}, m \in {<<0, 2>>, <<2, 0>>, <<0, 1>>}}

InitScore == InitWith(<<"AAPL">>, BaseBars, {}, <<2, 1>>)
NextScore == Scan \/ NewData(ScoreBars, {{}}, SpyCloses)
SpecScore == InitScore /\ [][NextScore]_vars

-----------------------------------------------------------------------------
(* SpecLookup: one symbol; the earnings lookup of line 126 is the only call *)
(* that can raise                                                           *)

LookupFaults == {"none", "earnings"}
LookupDates == {{}, {8}, {16}}

ScanSymbolLookup == Iteration(LookupFaults)

InitLookup == InitWith(<<"AAPL">>, BaseBars, {}, <<2, 1>>)
NextLookup ==
    StartScan \/ ScanSymbolLookup \/ EndScan
        \/ NewData(EarningsBars, LookupDates, {<<2, 1>>})
SpecLookup == InitLookup /\ [][NextLookup]_vars

-----------------------------------------------------------------------------
(* SpecConviction: two symbols, one of them on the preferred list; the four *)
(* confirmations vary, the slopes stay in favour of the direction           *)

\* <<open, high, low, close>>: no reversal bar, a hammer, a shooting star
ConvictionCandles ==
    [plain |-> <<15000, 15100, 14900, 15000>>,
     hammer |-> <<15000, 15012, 14900, 15010>>,
     star |-> <<15010, 15100, 14998, 15000>>]

WithCandle(b, c) == [b EXCEPT !.open = c[1], !.high = c[2], !.low = c[3], !.close = c[4]]

\* the signal line is flat at 1: <<0, 2>> crosses it upwards, <<0, 1>> rises
\* without crossing, <<2, 0>> crosses it downwards, <<1, 0>> falls without crossing
ConvictionBars ==
    {WithCandle([BaseBars EXCEPT !.rsi = Series(50, 50, 28, 30), !.w_rsi = <<40, 50>>,
                                 !.macd = x[1], !.signal = <<1, 1>>],
                ConvictionCandles[x[2]]) :
        x \in {<<<<0, 2>>, "hammer">>, <<<<0, 1>>, "plain">>, <<<<0, 1>>, "hammer">>}}
    \cup
    {WithCandle([BaseBars EXCEPT !.rsi = Series(50, 50, 72, 70), !.w_rsi = <<50, 40>>,
                                 !.macd = x[1], !.signal = <<1, 1>>],
                ConvictionCandles[x[2]]) :
        x \in {<<<<2, 0>>, "star">>, <<<<1, 0>>, "plain">>}}

ConvictionSpy == {<<2, 1>>, <<1, 2>>}

InitConviction == InitWith(<<"AAPL", "MSFT">>, BaseBars, {}, <<2, 1>>)
NextConviction == Scan \/ NewData(ConvictionBars, {{}}, ConvictionSpy)
SpecConviction == InitConviction /\ [][NextConviction]_vars

-----------------------------------------------------------------------------
(* SpecOverlap: one symbol, two runs at work in any interleaving, alone or  *)
(* overlapping, and the ingestion replacing the bars at any time            *)

\* a fresh LONG signal and no fresh signal with the RSI inside the LONG room, each
\* at a low of 150.00 or of 149.50, and the RSI outside the room
OverlapBars ==
    {[BaseBars EXCEPT !.rsi = Series(50, 50, 28, 30), !.low = 15000],
     [BaseBars EXCEPT !.rsi = Series(50, 50, 28, 30), !.low = 14950],
     [BaseBars EXCEPT !.rsi = Series(50, 50, 50, 40), !.low = 15000],
     [BaseBars EXCEPT !.rsi = Series(50, 50, 50, 40), !.low = 14950],
     [BaseBars EXCEPT !.rsi = Series(50, 50, 50, 50), !.low = 15000]}

InitOverlap == InitWith(<<"AAPL">>, BaseBars, {}, <<2, 1>>)
NextOverlap ==
    \/ \E r \in RunIds : RunFetch(r, "AAPL")
    \/ \E r \in RunIds : RunSelect(r, "AAPL")
    \/ \E r \in RunIds : RunWrite(r, "AAPL")
    \/ Ingest(OverlapBars, "AAPL")
SpecOverlap == InitOverlap /\ [][NextOverlap]_vars

-----------------------------------------------------------------------------
(* SpecReporting: one symbol, scans write the watchlist and reports are     *)
(* generated between the runs                                               *)

ReportingBars ==
    {[BaseBars EXCEPT !.rsi = Series(50, 50, 28, 30), !.w_rsi = <<40, 50>>,
                      !.macd = <<0, 1>>],
     [BaseBars EXCEPT !.rsi = Series(50, 50, 72, 70), !.w_rsi = <<40, 50>>,
                      !.macd = <<0, 1>>],
     [BaseBars EXCEPT !.rsi = Series(50, 50, 50, 40)],
     BaseBars}

InitReporting == InitWith(<<"AAPL">>, BaseBars, {}, <<2, 1>>)
NextReporting == Scan \/ NewData(ReportingBars, {{}}, {<<2, 1>>}) \/ GenerateReport
SpecReporting == InitReporting /\ [][NextReporting]_vars

-----------------------------------------------------------------------------
(* SpecBars: the ingestion upserts batches of one or two daily bars of one  *)
(* symbol; volumes are in lots, prices in hundredths                        *)

MaxVolume == 4

\* two bars of day 1 that differ in every field, and a bar of day 2
IngestedBars ==
    {[symbol |-> "AAPL", timestamp |-> 1, timeframe |-> "1d", open |-> 15000,
      high |-> 15100, low |-> 14900, close |-> 15050, volume |-> 1, vwap |-> 15000,
      trade_count |-> 10],
     [symbol |-> "AAPL", timestamp |-> 1, timeframe |-> "1d", open |-> 15010,
      high |-> 15200, low |-> 14800, close |-> 15100, volume |-> 2, vwap |-> 15020,
      trade_count |-> 20],
     [symbol |-> "AAPL", timestamp |-> 2, timeframe |-> "1d", open |-> 15050,
      high |-> 15150, low |-> 15000, close |-> 15100, volume |-> 1, vwap |-> 15080,
      trade_count |-> 10]}

IngestedBatches ==
    {<<t>> : t \in IngestedBars} \cup {<<t, u>> : t, u \in IngestedBars}

InitBars == InitWith(<<"AAPL">>, BaseBars, {}, <<2, 1>>)
NextBars == BulkUpsert(IngestedBatches, MaxVolume)
SpecBars == InitBars /\ [][NextBars]_vars

-----------------------------------------------------------------------------
(* SpecTrail: SpecPrice, started from an empty watchlist or from a row that *)
(* has no extreme_price yet                                                 *)

\* a row as the scanner writes it, its extreme_price and stop_loss null
RowWithoutExtreme(d) ==
    [NewRow("AAPL", d, BaseBars, {}, {}, 1, TRUE) EXCEPT !.extreme_price = Null,
                                                         !.stop_loss = Null]

TrailStored == {{}, {RowWithoutExtreme("LONG")}, {RowWithoutExtreme("SHORT")}}

InitTrail ==
    /\ \E stored \in TrailStored : InitScanner(<<"AAPL">>, BaseBars, {}, <<2, 1>>, stored)
    /\ signal_watchlist = <<>>
    /\ report = NoReport
    /\ market_data_1d = {}
    /\ data_tuples = <<>>
NextTrail == Scan \/ NewData(PriceBars, {{}}, {<<2, 1>>})
SpecTrail == InitTrail /\ [][NextTrail]_vars

-----------------------------------------------------------------------------
(* SpecReport: reports generated from tables of up to two rows              *)

ReportRows(s) ==
    {[symbol |-> s, direction |-> d, is_ready |-> ready, extreme_price |-> e] :
        d \in {"LONG", "SHORT"}, ready \in BOOLEAN, e \in {14950, 15000}}

ReportTables ==
    {<<>>} \cup {<<r>> : r \in ReportRows("AAPL") \cup ReportRows("MSFT")}
           \cup {<<r, q>> : r \in ReportRows("AAPL"), q \in ReportRows("MSFT")}

InitReport ==
    /\ InitScanner(<<"AAPL">>, BaseBars, {}, <<2, 1>>, {})
    /\ signal_watchlist \in ReportTables
    /\ report = NoReport
    /\ market_data_1d = {}
    /\ data_tuples = <<>>
NextReport == GenerateReport
SpecReport == InitReport /\ [][NextReport]_vars

-----------------------------------------------------------------------------
(* Vocabulary of the properties *)

Universe == SymbolSet(ticker_reference)

\* the running or just completed scan went through the whole of the symbol's
\* iteration: it was not skipped for short history and nothing raised
Evaluated(s) ==
    /\ pc \in {"scan", "done"}
    /\ outcome[s] \in {"no_signal", "deleted", "upserted"}

Rows(wl, s) == {r \in wl : r.symbol = s}
HasRow(wl, s, d) == \E r \in wl : r.symbol = s /\ r.direction = d

-----------------------------------------------------------------------------
(* C1: every evaluated symbol whose current daily RSI is <= 30 has a row    *)
(* after the scan, and the row's direction is LONG, whatever was stored.    *)
C1_OversoldIsLong ==
    \A s \in Universe :
        (Evaluated(s) /\ curr_rsi(market_data[s]) <= 30)
            => /\ Rows(watchlist, s) # {}
               /\ \A r \in Rows(watchlist, s) : r.direction = "LONG"

\* reached: a stored SHORT row, and a scan at RSI 30 that left a LONG row
C1_Witness ==
    /\ pc = "done"
    /\ outcome["AAPL"] = "upserted"
    /\ curr_rsi(market_data["AAPL"]) = 30
    /\ HasRow(prev_watchlist, "AAPL", "SHORT")
    /\ HasRow(watchlist, "AAPL", "LONG")

(* C4 as stated: a stored LONG row whose symbol is evaluated with current   *)
(* RSI > 45 leaves no row at all for the symbol (mirrored: SHORT, < 55).    *)
C4_InvalidatedLeavesNoRow ==
    \A s \in Universe :
        (/\ Evaluated(s)
         /\ \/ HasRow(prev_watchlist, s, "LONG") /\ curr_rsi(market_data[s]) > 45
            \/ HasRow(prev_watchlist, s, "SHORT") /\ curr_rsi(market_data[s]) < 55)
            => Rows(watchlist, s) = {}

(* C4 amended: the scan never keeps that row. It deletes it, unless the     *)
(* same scan produces a fresh signal of the opposite direction (a touch of  *)
(* the opposite extreme in the lookback and current RSI in the opposite     *)
(* room), and then the row is replaced by one of the opposite direction.    *)
C4_InvalidatedIsRemovedOrFlipped ==
    \A s \in Universe :
        LET b == market_data[s]
        IN  /\ (Evaluated(s) /\ HasRow(prev_watchlist, s, "LONG") /\ curr_rsi(b) > 45)
                => /\ ~HasRow(watchlist, s, "LONG")
                   /\ (Rows(watchlist, s) # {}
                        <=> (curr_rsi(b) >= 55 /\ touched_overbought(b)))
            /\ (Evaluated(s) /\ HasRow(prev_watchlist, s, "SHORT") /\ curr_rsi(b) < 55)
                => /\ ~HasRow(watchlist, s, "SHORT")
                   /\ (Rows(watchlist, s) # {}
                        <=> (curr_rsi(b) <= 45 /\ touched_oversold(b)))

\* reached: a stored LONG row deleted at RSI 46, with an oversold touch still
\* in the lookback
C4_Witness ==
    /\ pc = "done"
    /\ outcome["AAPL"] = "deleted"
    /\ HasRow(prev_watchlist, "AAPL", "LONG")
    /\ curr_rsi(market_data["AAPL"]) = 46
    /\ touched_oversold(market_data["AAPL"])
    /\ Rows(watchlist, "AAPL") = {}

\* a slope in favour of direction d, stated on its own
InFavour(d, curr, prev) ==
    \/ d = "LONG" /\ curr > prev
    \/ d = "SHORT" /\ curr < prev

\* no report date from the scan date to 14 days after it
NoEarningsSoon(s) == \A d \in earnings_calendar[s] : d < today \/ d - today > 14

Written(s) == Evaluated(s) /\ outcome[s] = "upserted"

(* C2: the is_ready a scan writes is true exactly when the daily RSI, the   *)
(* weekly RSI and the MACD line all slope in favour of the row's direction  *)
(* and no earnings report falls within 14 days; a flat indicator fails.     *)
C2_ReadyIffAllGates ==
    \A s \in Universe :
        Written(s) =>
            \A r \in Rows(watchlist, s) :
                LET b == market_data[s]
                    daily == InFavour(r.direction, b.rsi[29], b.rsi[28])
                    weekly == InFavour(r.direction, b.w_rsi[2], b.w_rsi[1])
                    macd == InFavour(r.direction, b.macd[2], b.macd[1])
                IN  /\ r.is_ready <=> (daily /\ weekly /\ macd /\ NoEarningsSoon(s))
                    /\ (b.rsi[29] = b.rsi[28] \/ b.w_rsi[2] = b.w_rsi[1]
                          \/ b.macd[2] = b.macd[1]) => ~r.is_ready

\* reached: a SHORT row with the three slopes in favour and a report exactly 14
\* days ahead, written not ready
C2_Witness ==
    /\ Written("AAPL")
    /\ market_data["AAPL"].rsi[28] = 72 /\ market_data["AAPL"].rsi[29] = 70
    /\ market_data["AAPL"].w_rsi = <<50, 40>>
    /\ market_data["AAPL"].macd = <<1, 0>>
    /\ earnings_calendar["AAPL"] = {today + 14}
    /\ \E r \in watchlist : r.direction = "SHORT" /\ ~r.is_ready

(* C8: a symbol evaluated with current RSI 28 and previous RSI 32 gets a    *)
(* LONG row that is not ready, whatever the other gates say; no LONG row is *)
(* written ready while the current daily RSI is <= the previous one.        *)
C8_FallingRsiNeverReady ==
    \A s \in Universe :
        LET b == market_data[s]
        IN  /\ (Evaluated(s) /\ b.rsi[29] = 28 /\ b.rsi[28] = 32)
                => /\ Rows(watchlist, s) # {}
                   /\ \A r \in Rows(watchlist, s) : r.direction = "LONG" /\ ~r.is_ready
            /\ Written(s)
                => \A r \in Rows(watchlist, s) :
                       (r.direction = "LONG" /\ b.rsi[29] <= b.rsi[28]) => ~r.is_ready

\* reached: RSI 28 after 32 with the weekly RSI and the MACD rising and no report
\* ahead, written LONG and not ready
C8_Witness ==
    /\ Written("AAPL")
    /\ market_data["AAPL"].rsi[29] = 28 /\ market_data["AAPL"].rsi[28] = 32
    /\ market_data["AAPL"].w_rsi = <<40, 50>>
    /\ market_data["AAPL"].macd = <<0, 1>>
    /\ earnings_calendar["AAPL"] = {}
    /\ \E r \in watchlist : r.direction = "LONG" /\ ~r.is_ready

(* C3: a row that stays in the watchlist with the same direction never has  *)
(* its extreme_price raised (LONG) or lowered (SHORT) by any step, be it a  *)
(* write, a skip or a failed iteration.                                     *)
C3_ExtremeMonotone ==
    [][\A r \in watchlist : \A q \in watchlist' :
          (q.symbol = r.symbol /\ q.direction = r.direction)
              => /\ r.direction = "LONG" => q.extreme_price <= r.extreme_price
                 /\ r.direction = "SHORT" => q.extreme_price >= r.extreme_price]_vars

\* reached: a LONG row at 149.50 after it was stored at 150.00, the current low
\* being back at 150.25
C3_Witness ==
    /\ Written("AAPL")
    /\ market_data["AAPL"].low = 15025
    /\ \E r \in prev_watchlist : r.direction = "LONG" /\ r.extreme_price = 14950
    /\ \E r \in watchlist : r.direction = "LONG" /\ r.extreme_price = 14950

(* C6: when the fresh signal of a scan is opposite to the stored direction, *)
(* the row written has the extreme of a new candidate: the current bar's    *)
(* high for SHORT, its low for LONG.                                        *)
C6_FlipResetsExtreme ==
    \A s \in Universe :
        Written(s) =>
            \A p \in Rows(prev_watchlist, s) : \A r \in Rows(watchlist, s) :
                p.direction # r.direction
                    => r.extreme_price = (IF r.direction = "SHORT"
                                          THEN market_data[s].high
                                          ELSE market_data[s].low)

(* C9: the stop of every row is its extreme rounded one unit outward: LONG  *)
(* floor, or extreme - 1 when whole; SHORT ceil, or extreme + 1 when whole  *)
(* (150.00 LONG -> 149.00, 150.25 SHORT -> 151.00, 150.00 SHORT -> 151.00). *)
C9_StopRounding ==
    \A r \in watchlist :
        LET e == r.extreme_price
            whole == (e \div 100) * 100
        IN  /\ r.direction = "LONG"
                => r.stop_loss = (IF e = whole THEN e - 100 ELSE whole)
            /\ r.direction = "SHORT"
                => r.stop_loss = (IF e = whole THEN e + 100 ELSE whole + 100)
            /\ (r.direction = "LONG" /\ e = 15000) => r.stop_loss = 14900
            /\ (r.direction = "SHORT" /\ e = 15025) => r.stop_loss = 15100
            /\ (r.direction = "SHORT" /\ e = 15000) => r.stop_loss = 15100

\* reached: a SHORT row at 150.00 with its stop at 151.00
C9_Witness ==
    \E r \in watchlist :
        r.direction = "SHORT" /\ r.extreme_price = 15000 /\ r.stop_loss = 15100

NoError == \A s \in Universe : outcome[s] # "error"

\* a table without the column last_updated
WithoutLastUpdated(wl) == {[r EXCEPT !.last_updated = 0] : r \in wl}

(* C5: a second run right after a first one, with the same bars, earnings   *)
(* and date and no per-symbol error in either, leaves the watchlist as the  *)
(* first run left it, last_updated aside.                                   *)
C5_SecondRunChangesNothing ==
    (pc = "done" /\ same_inputs /\ prev_clean /\ NoError)
        => WithoutLastUpdated(watchlist) = WithoutLastUpdated(prev_watchlist)

\* reached: the end of a second run that rewrote the row of one symbol and had
\* nothing to do for the other
C5_Witness ==
    /\ pc = "done" /\ same_inputs /\ prev_clean
    /\ outcome["AAPL"] = "upserted"
    /\ outcome["MSFT"] = "no_signal"
    /\ HasRow(watchlist, "AAPL", "SHORT")

(* C7: when a run has started, no row is left whose last_updated is more    *)
(* than the retention window (28 days at most) before the scan date.        *)
C7_StaleRowsPruned ==
    pc = "scan" => \A r \in watchlist : today - r.last_updated <= 28

(* C10: whatever raises for some symbols, the run visits every symbol once, *)
(* never twice, leaves the row of a symbol that failed as it found it, and  *)
(* ends.                                                                    *)
C10_FailureNeverAborts ==
    /\ [](\A s \in Universe :
            /\ visits[s] <= 1
            /\ pc = "done" => visits[s] = 1 /\ outcome[s] # "pending"
            /\ (pc \in {"scan", "done"} /\ outcome[s] = "error")
                 => Rows(watchlist, s) = Rows(prev_watchlist, s))
    /\ (pc = "scan") ~> (pc = "done")

\* reached: the end of a run in which the first symbol failed and the second
\* was written
C10_Witness ==
    /\ pc = "done"
    /\ outcome["AAPL"] = "error" /\ visits["AAPL"] = 1
    /\ outcome["MSFT"] = "upserted" /\ visits["MSFT"] = 1


-----------------------------------------------------------------------------
\* the four gates of a row of direction d, stated on the inputs of the scan
AllGatesPass(s, d) ==
    LET b == market_data[s]
    IN  /\ InFavour(d, b.rsi[29], b.rsi[28])
        /\ InFavour(d, b.w_rsi[2], b.w_rsi[1])
        /\ InFavour(d, b.macd[2], b.macd[1])
        /\ NoEarningsSoon(s)

(* C11: when a symbol with a stored LONG row is evaluated with current RSI  *)
(* <= 45 (a stored SHORT row, with current RSI >= 55), the symbol still has *)
(* a row of that direction after the scan, whichever gates fail; and the    *)
(* row is written with is_ready false as soon as one of the gates fails.    *)
C11_GateFailureKeepsRow ==
    \A s \in Universe :
        \A d \in {"LONG", "SHORT"} :
            (/\ Evaluated(s)
             /\ HasRow(prev_watchlist, s, d)
             /\ \/ d = "LONG" /\ curr_rsi(market_data[s]) <= 45
                \/ d = "SHORT" /\ curr_rsi(market_data[s]) >= 55)
                => /\ outcome[s] = "upserted"
                   /\ Rows(watchlist, s) # {}
                   /\ \A r \in Rows(watchlist, s) :
                         /\ r.direction = d
                         /\ ~AllGatesPass(s, d) => ~r.is_ready

\* reached: a LONG row stored ready, and a scan with the daily RSI falling inside
\* the room that wrote it back not ready
C11_Witness ==
    /\ pc = "done"
    /\ outcome["AAPL"] = "upserted"
    /\ \E p \in prev_watchlist : p.direction = "LONG" /\ p.is_ready
    /\ curr_rsi(market_data["AAPL"]) <= 45
    /\ curr_rsi(market_data["AAPL"]) < prev_rsi(market_data["AAPL"])
    /\ \E r \in watchlist : r.symbol = "AAPL" /\ r.direction = "LONG" /\ ~r.is_ready


-----------------------------------------------------------------------------
\* a touch of the extreme of direction d among the last 28 values of the 29-value
\* series, and the current value in the room of d: stated on the inputs
TouchInLookback(d, b) ==
    \E i \in 2..29 : IF d = "LONG" THEN b.rsi[i] <= 30 ELSE b.rsi[i] >= 70

InRoom(d, b) == IF d = "LONG" THEN b.rsi[29] <= 45 ELSE b.rsi[29] >= 55

FreshSignal(b) ==
    IF TouchInLookback("LONG", b) /\ InRoom("LONG", b) THEN "LONG"
    ELSE IF TouchInLookback("SHORT", b) /\ InRoom("SHORT", b) THEN "SHORT"
    ELSE None

(* C12: an evaluated symbol whose scan produces a fresh signal (LONG on a   *)
(* touch <= 30 in the last 28 values with current RSI <= 45, else SHORT on  *)
(* a touch >= 70 with current RSI >= 55) has a row of that direction after  *)
(* the scan; a row written without a fresh signal has the direction of the  *)
(* stored row; and no scan without a fresh signal leaves a row of another   *)
(* direction than the stored one.                                           *)
C12_DirectionResolution ==
    \A s \in Universe :
        LET fresh == FreshSignal(market_data[s])
        IN  Evaluated(s) =>
              /\ fresh # None
                    => /\ outcome[s] = "upserted"
                       /\ Rows(watchlist, s) # {}
                       /\ \A r \in Rows(watchlist, s) : r.direction = fresh
              /\ fresh = None
                    => \A r \in Rows(watchlist, s) :
                          \E p \in Rows(prev_watchlist, s) : r.direction = p.direction

\* reached: a stored SHORT row written back as SHORT by a scan that saw both
\* extremes in its lookback but whose current RSI of 55 is outside the LONG room
C12_Witness ==
    /\ pc = "done"
    /\ outcome["AAPL"] = "upserted"
    /\ TouchInLookback("LONG", market_data["AAPL"])
    /\ TouchInLookback("SHORT", market_data["AAPL"])
    /\ curr_rsi(market_data["AAPL"]) = 55
    /\ HasRow(prev_watchlist, "AAPL", "SHORT")
    /\ HasRow(watchlist, "AAPL", "SHORT")


(* C13: after the iteration of an evaluated symbol that had no row, the     *)
(* symbol has a row exactly when the scan produced a fresh signal; with no  *)
(* fresh signal and no row the iteration writes nothing and deletes nothing *)
(* (the watchlist is the one the scan started with, the symbol untracked).  *)
C13_NoRowWithoutFreshSignal ==
    \A s \in Universe :
        (Evaluated(s) /\ Rows(prev_watchlist, s) = {})
            => /\ Rows(watchlist, s) # {} <=> FreshSignal(market_data[s]) # None
               /\ FreshSignal(market_data[s]) = None
                    => /\ outcome[s] = "no_signal"
                       /\ Rows(watchlist, s) = {}
                       /\ Universe = {s} => watchlist = prev_watchlist

\* reached: no row, an RSI of 28 one value before the 28-value lookback and a
\* current RSI of 45, and the scan left the symbol untracked
C13_Witness ==
    /\ pc = "done"
    /\ outcome["AAPL"] = "no_signal"
    /\ market_data["AAPL"].rsi[1] = 28
    /\ curr_rsi(market_data["AAPL"]) = 45
    /\ prev_watchlist = {}
    /\ watchlist = {}


-----------------------------------------------------------------------------
\* the three slopes of a row of direction d, stated on the inputs of the scan
SlopesInFavour(s, d) ==
    LET b == market_data[s]
    IN  /\ InFavour(d, b.rsi[29], b.rsi[28])
        /\ InFavour(d, b.w_rsi[2], b.w_rsi[1])
        /\ InFavour(d, b.macd[2], b.macd[1])

(* C14: a row written while some report date of the symbol lies 0 to 14     *)
(* days after the scan date has is_ready false, whatever the slopes; a row  *)
(* written while no report date on or after the scan date is known has      *)
(* next_earnings null and is ready exactly when the three slopes are in     *)
(* favour; otherwise next_earnings is the soonest date on or after the scan *)
(* date.                                                                    *)
C14_EarningsGate ==
    \A s \in Universe :
        Written(s) =>
            \A r \in Rows(watchlist, s) :
                LET upcoming == {d \in earnings_calendar[s] : d >= today}
                IN  /\ (\E d \in upcoming : d - today <= 14) => ~r.is_ready
                    /\ upcoming = {}
                          => /\ r.next_earnings = Null
                             /\ r.is_ready <=> SlopesInFavour(s, r.direction)
                    /\ upcoming # {}
                          => /\ r.next_earnings \in upcoming
                             /\ \A d \in upcoming : r.next_earnings <= d

\* reached: the three slopes in favour of a LONG row and a report on the scan date
\* itself, written not ready
C14_Witness ==
    /\ Written("AAPL")
    /\ SlopesInFavour("AAPL", "LONG")
    /\ earnings_calendar["AAPL"] = {today}
    /\ \E r \in watchlist : r.direction = "LONG" /\ ~r.is_ready /\ r.next_earnings = today


(* C15: the watchlist starts empty, and a row of direction LONG comes into  *)
(* it (a new row, or a row whose direction was SHORT) only in the iteration *)
(* of a scan that sees an RSI <= 30 within the last 28 values of its        *)
(* symbol; mirrored with >= 70 for SHORT. Every other step keeps or removes *)
(* rows, so each stored row goes back to such a scan, whatever later scans  *)
(* see.                                                                     *)
C15_RowsComeFromATouch ==
    [][\A r \in watchlist' :
          (~ \E p \in watchlist : p.symbol = r.symbol /\ p.direction = r.direction)
              => /\ pc = "scan" /\ idx <= Len(symbols) /\ symbols[idx] = r.symbol
                 /\ TouchInLookback(r.direction, market_data[r.symbol])]_vars

\* reached: a LONG row written back by a scan whose 28-value lookback holds no RSI
\* at or under 30 any more
C15_Witness ==
    /\ pc = "done"
    /\ outcome["AAPL"] = "upserted"
    /\ ~TouchInLookback("LONG", market_data["AAPL"])
    /\ HasRow(prev_watchlist, "AAPL", "LONG")
    /\ HasRow(watchlist, "AAPL", "LONG")


-----------------------------------------------------------------------------
(* C16: in every reachable state the watchlist holds at most one row for    *)
(* each symbol, whatever scans wrote it and in whichever directions.        *)
C16_OneRowPerSymbol ==
    \A s \in Universe : Cardinality(Rows(watchlist, s)) <= 1

\* reached: both symbols tracked, and AAPL's stored SHORT row written over by a
\* LONG one: two rows in all
C16_Witness ==
    /\ pc = "done"
    /\ outcome["AAPL"] = "upserted"
    /\ HasRow(prev_watchlist, "AAPL", "SHORT")
    /\ HasRow(watchlist, "AAPL", "LONG")
    /\ Rows(watchlist, "MSFT") # {}
    /\ Cardinality(watchlist) = 2


-----------------------------------------------------------------------------
\* the weeks, Saturday to Friday, in which the history has a bar, and those in
\* which it has the bar of every weekday: stated on the timestamps
HasBar(b, d) == d >= b.timestamps[1] /\ d <= b.timestamps[2] /\ d % 7 < 5
Fridays(b) == {f \in 0..(b.timestamps[2] + 6) : f % 7 = 4}
WeeksWithBars(b) == {f \in Fridays(b) : \E d \in (f - 6)..f : HasBar(b, d)}
CompleteWeeks(b) == {f \in Fridays(b) : \A d \in (f - 4)..f : HasBar(b, d)}

\* the symbol's iteration of the running or just completed scan is over
Visited(s) == pc \in {"scan", "done"} /\ outcome[s] # "pending"

(* C17: after the iteration of a symbol with fewer than 50 daily bars, or   *)
(* whose bars fall in fewer than 15 weeks (the weekly RSI is then None),    *)
(* the symbol's rows are exactly the rows it had when the scan started; the *)
(* iteration ends as a skip, or as an error when one of its calls raised:   *)
(* with no call raising it is a skip.                                       *)
C17_InsufficientHistorySkips ==
    \A s \in Universe :
        LET b == market_data[s]
        IN  (b.nbars < 50 \/ Cardinality(WeeksWithBars(b)) < 15)
              => /\ Visited(s)
                    => /\ Rows(watchlist, s) = Rows(prev_watchlist, s)
                       /\ outcome[s] \in {"short_history", "no_weekly", "error"}
                 /\ ProcessSymbol(watchlist, s, b, earnings_calendar[s], today,
                                  spy_up, "none")
                      \in {Result("short_history", watchlist),
                           Result("no_weekly", watchlist)}

\* reached: a stored SHORT row, then 70 bars in 14 weeks with an RSI of 28, and
\* the scan left the SHORT row as it was
C17_Witness ==
    /\ pc = "done"
    /\ outcome["AAPL"] = "no_weekly"
    /\ market_data["AAPL"].nbars = 70
    /\ curr_rsi(market_data["AAPL"]) = 28
    /\ HasRow(watchlist, "AAPL", "SHORT")
    /\ watchlist = prev_watchlist


-----------------------------------------------------------------------------
(* C18 as stated: for a history with fewer than 15 complete weeks (a bar on *)
(* each day from Monday to Friday) get_weekly_rsi_resampled returns         *)
(* (None, None), a partial last week not counted, and the scan skips the    *)
(* symbol; for a history of 20 complete weeks ending on a Friday it returns *)
(* a pair of two values.                                                    *)
C18_PartialWeekNotCounted ==
    \A s \in Universe :
        LET b == market_data[s]
            complete == Cardinality(CompleteWeeks(b))
        IN  /\ complete < 15
                 => /\ get_weekly_rsi_resampled(b) = <<Null, Null>>
                    /\ Visited(s) => outcome[s] \in {"short_history", "no_weekly", "error"}
            /\ (complete >= 20 /\ b.timestamps[2] % 7 = 4)
                 => /\ get_weekly_rsi_resampled(b)[1] # Null
                    /\ get_weekly_rsi_resampled(b)[2] # Null


-----------------------------------------------------------------------------
(* C19 as stated: a row written by a scan that found fewer than two bars of *)
(* the reference instrument has spy_alignment false, LONG or SHORT, and a   *)
(* market_score that counts the other three confirmations only.             *)
C19_AlignmentFailsClosed ==
    \A s \in Universe :
        (Written(s) /\ Len(spy_closes) < 2)
            => \A r \in Rows(watchlist, s) :
                 /\ ~r.spy_alignment
                 /\ r.market_score = BoolInt(r.macd_cross) + BoolInt(r.pattern_confirmed)
                                     + BoolInt(r.preferred_watchlist)


-----------------------------------------------------------------------------
(* C20 as stated, where the earnings lookup is the only call that can       *)
(* raise: every symbol with a fresh signal is still written by its          *)
(* iteration, a row of the signal's direction, ready only with the three    *)
(* slopes in favour.                                                        *)
C20_EarningsFailureStillWrites ==
    \A s \in Universe :
        (Visited(s) /\ FreshSignal(market_data[s]) # None)
            => /\ outcome[s] = "upserted"
               /\ \E r \in Rows(watchlist, s) :
                     /\ r.direction = FreshSignal(market_data[s])
                     /\ r.is_ready => SlopesInFavour(s, r.direction)


-----------------------------------------------------------------------------
\* the four confirmations of a row of direction d, stated on the inputs of the
\* scan: the MACD line crossing its signal line towards d on the last bar, a
\* hammer (LONG) or shooting star (SHORT) as last bar, the reference instrument
\* closing with d, and the symbol on the preferred list
CrossTowards(d, b) ==
    IF d = "LONG" THEN b.macd[1] < b.signal[1] /\ b.macd[2] > b.signal[2]
    ELSE b.macd[1] > b.signal[1] /\ b.macd[2] < b.signal[2]

ReversalBar(d, b) ==
    LET top == IF b.open >= b.close THEN b.open ELSE b.close
        bottom == IF b.open >= b.close THEN b.close ELSE b.open
        body == top - bottom
        upper == b.high - top
        lower == bottom - b.low
    IN  IF d = "LONG" THEN lower > 2 * body /\ upper < body
        ELSE upper > 2 * body /\ lower < body

(* C21: every row a scan writes has a market_score equal to the number of   *)
(* its true confirmations (macd_cross, pattern_confirmed, spy_alignment,    *)
(* preferred_watchlist), each of which is the confirmation of the scan's    *)
(* inputs; the score lies in 0..4, in 0..3 for a symbol off the preferred   *)
(* list; and is_ready is decided by the four gates alone, whatever the      *)
(* confirmations are.                                                       *)
C21_ScoreCountsConfirmations ==
    \A s \in Universe :
        Written(s) =>
            \A r \in Rows(watchlist, s) :
                LET b == market_data[s]
                IN  /\ r.macd_cross <=> CrossTowards(r.direction, b)
                    /\ r.pattern_confirmed <=> ReversalBar(r.direction, b)
                    /\ r.preferred_watchlist <=> s \in PREF_WATCHLIST
                    /\ Len(spy_closes) >= 2
                          => (r.spy_alignment
                                <=> IF r.direction = "LONG"
                                    THEN spy_closes[1] > spy_closes[2]
                                    ELSE ~(spy_closes[1] > spy_closes[2]))
                    /\ r.market_score
                          = Cardinality({k \in {"macd_cross", "pattern_confirmed",
                                                "spy_alignment", "preferred_watchlist"} :
                                            r[k]})
                    /\ r.market_score \in 0..4
                    /\ s \notin PREF_WATCHLIST => r.market_score \in 0..3
                    /\ r.is_ready <=> AllGatesPass(s, r.direction)

\* reached: a ready row with all four confirmations and a ready row with none
C21_Witness ==
    /\ pc = "done"
    /\ Written("AAPL") /\ Written("MSFT")
    /\ \E r \in watchlist : r.symbol = "AAPL" /\ r.market_score = 4 /\ r.is_ready
    /\ \E r \in watchlist : r.symbol = "MSFT" /\ r.market_score = 0 /\ r.is_ready


-----------------------------------------------------------------------------
(* C22: as long as no two runs were ever at work on the symbol at the same  *)
(* time, no write replaces a row by one of the same direction with a looser *)
(* extreme_price, and none writes, without a fresh signal, a row for a      *)
(* symbol whose row was deleted; with overlapping runs and the bars         *)
(* replaced between their reads both happen (the witness).                  *)
C22_SerializedRunsAreSafe == anomalies # {} => overlapped

\* reached: overlapping runs have done both, and the watchlist holds a row
C22_Witness ==
    /\ overlapped
    /\ anomalies = {"loosened", "recreated"}
    /\ \A r \in RunIds : runs[r].at = "idle"
    /\ watchlist # {}


-----------------------------------------------------------------------------
(* C23 as stated: whenever a report is generated and its query succeeds,    *)
(* every row the watchlist holds at that time is among the rows the report  *)
(* has read.                                                                *)
C23_ReportReadsTheWatchlist ==
    [][(report' # report /\ report'.query_ok)
          => \A r \in watchlist :
                \E i \in DOMAIN report'.data : report'.data[i].symbol = r.symbol]_vars


-----------------------------------------------------------------------------
(* C24 as stated: the table never holds two bars with the same (symbol,     *)
(* timestamp, timeframe); and a call whose bars are each stored already,    *)
(* identical in every field, leaves the table as it was.                    *)
C24_UpsertDeduplicates ==
    [][/\ \A x, y \in market_data_1d' : BarKey(x) = BarKey(y) => x = y
       /\ (\A i \in DOMAIN data_tuples' : data_tuples'[i] \in market_data_1d)
             => market_data_1d' = market_data_1d]_vars


-----------------------------------------------------------------------------
(* C25: the extreme_price a scan writes is the current bar's low (LONG) or  *)
(* high (SHORT) when the symbol had no row or a row with a null             *)
(* extreme_price, and otherwise the min of the stored extreme_price and the *)
(* low (LONG) or the max of it and the high (SHORT); so a written LONG row  *)
(* has extreme_price <= the low and a SHORT row extreme_price >= the high.  *)
C25_TrailingExtreme ==
    \A s \in Universe :
        Written(s) =>
            \A r \in Rows(watchlist, s) :
                LET b == market_data[s]
                    stored == {p.extreme_price : p \in Rows(prev_watchlist, s)} \ {Null}
                IN  /\ stored = {}
                          => r.extreme_price = (IF r.direction = "LONG" THEN b.low
                                                ELSE b.high)
                    /\ \A e \in stored :
                          r.extreme_price
                            = (IF r.direction = "LONG"
                               THEN (IF e <= b.low THEN e ELSE b.low)
                               ELSE (IF e >= b.high THEN e ELSE b.high))
                    /\ r.direction = "LONG" => r.extreme_price <= b.low
                    /\ r.direction = "SHORT" => r.extreme_price >= b.high

\* reached: a stored LONG row with a null extreme_price, written with the current
\* bar's low
C25_Witness ==
    /\ Written("AAPL")
    /\ \E p \in prev_watchlist : p.direction = "LONG" /\ p.extreme_price = Null
    /\ \E r \in watchlist :
          r.direction = "LONG" /\ r.extreme_price = market_data["AAPL"].low


-----------------------------------------------------------------------------
(* C26: every row a scan writes has a whole stop_loss that is never its     *)
(* extreme_price: strictly below it and at most 1.00 below for LONG,        *)
(* strictly above it and at most 1.00 above for SHORT.                      *)
C26_StopBeyondExtreme ==
    \A s \in Universe :
        Written(s) =>
            \A r \in Rows(watchlist, s) :
                /\ r.stop_loss % 100 = 0
                /\ r.stop_loss # r.extreme_price
                /\ r.direction = "LONG"
                      => /\ r.stop_loss < r.extreme_price
                         /\ r.extreme_price - r.stop_loss <= 100
                /\ r.direction = "SHORT"
                      => /\ r.stop_loss > r.extreme_price
                         /\ r.stop_loss - r.extreme_price <= 100

\* reached: a LONG row written at 150.25 with its stop at 150.00
C26_Witness ==
    /\ Written("AAPL")
    /\ \E r \in watchlist :
          r.direction = "LONG" /\ r.extreme_price = 15025 /\ r.stop_loss = 15000


-----------------------------------------------------------------------------
(* C27: after the evaluation of a symbol whose current daily RSI is         *)
(* strictly between 45 and 55 the symbol has no row, whatever row it had    *)
(* and whatever the lookback holds; and every row a scan writes has a       *)
(* current RSI <= 45 when LONG and >= 55 when SHORT.                        *)
C27_NoRowInsideTheBand ==
    \A s \in Universe :
        LET curr == market_data[s].rsi[29]
        IN  /\ (Evaluated(s) /\ curr > 45 /\ curr < 55) => Rows(watchlist, s) = {}
            /\ Written(s) =>
                  \A r \in Rows(watchlist, s) :
                      /\ r.direction = "LONG" => curr <= 45
                      /\ r.direction = "SHORT" => curr >= 55

\* reached: a stored LONG row, a touch of 30 still in the lookback, the current
\* RSI at 46, and the row gone after the scan
C27_Witness ==
    /\ Evaluated("AAPL")
    /\ market_data["AAPL"].rsi[29] = 46
    /\ TouchInLookback("LONG", market_data["AAPL"])
    /\ HasRow(prev_watchlist, "AAPL", "LONG")
    /\ Rows(watchlist, "AAPL") = {}


-----------------------------------------------------------------------------
(* C28: a scan deletes the row of a symbol only when the symbol had a row   *)
(* and its bars give no fresh entry signal; with a fresh signal the scan    *)
(* never deletes and, no call raising, upserts, so the row it writes is     *)
(* still there when the iteration ends.                                     *)
C28_DeleteOnlyWithoutFreshSignal ==
    \A s \in Universe :
        LET fresh == FreshSignal(market_data[s])
        IN  /\ (Visited(s) /\ outcome[s] = "deleted")
                  => Rows(prev_watchlist, s) # {} /\ fresh = None
            /\ (Visited(s) /\ fresh # None) => outcome[s] # "deleted"
            /\ (Evaluated(s) /\ fresh # None)
                  => outcome[s] = "upserted" /\ HasRow(watchlist, s, fresh)

\* reached: a stored SHORT row, a fresh LONG signal, and the scan upserting
C28_Witness ==
    /\ Evaluated("AAPL")
    /\ FreshSignal(market_data["AAPL"]) = "LONG"
    /\ HasRow(prev_watchlist, "AAPL", "SHORT")
    /\ outcome["AAPL"] = "upserted"
    /\ HasRow(watchlist, "AAPL", "LONG")


-----------------------------------------------------------------------------
(* C29: the iteration of a symbol changes the watchlist in one step and at  *)
(* most once per scan: it removes the symbol's row, or replaces it by one   *)
(* row, or leaves the table as it is; rows of other symbols never change,   *)
(* and an iteration that raises or skips leaves the table unchanged.        *)
C29_OneWritePerSymbol ==
    [][(pc = "scan" /\ idx <= Len(symbols) /\ idx' # idx)
         => LET s == symbols[idx]
            IN  /\ visits'[s] = 1
                /\ \A r \in watchlist : r.symbol # s => r \in watchlist'
                /\ \A r \in watchlist' : r.symbol # s => r \in watchlist
                /\ \/ watchlist' = watchlist
                   \/ /\ outcome'[s] = "deleted"
                      /\ Rows(watchlist, s) # {}
                      /\ Rows(watchlist', s) = {}
                   \/ /\ outcome'[s] = "upserted"
                      /\ Cardinality(Rows(watchlist', s)) = 1
                /\ outcome'[s] \notin {"deleted", "upserted"} => watchlist' = watchlist]_vars

\* reached: the iteration of AAPL raised with a fresh signal in its bars and its
\* stored row is the one the scan found, while MSFT's row was written
C29_Witness ==
    /\ pc = "done"
    /\ outcome["AAPL"] = "error"
    /\ FreshSignal(market_data["AAPL"]) # None
    /\ Rows(prev_watchlist, "AAPL") # {}
    /\ Rows(watchlist, "AAPL") = Rows(prev_watchlist, "AAPL")
    /\ outcome["MSFT"] = "upserted"


-----------------------------------------------------------------------------
(* C30: the report lists every row it read exactly once, with the row's own *)
(* symbol, direction and extreme price, under CONFIRMED ENTRIES when the    *)
(* row's is_ready is true and under WATCHLIST otherwise, and the number of  *)
(* rows under CONFIRMED ENTRIES is the returned ready_count.                *)
C30_ReportListsEachRowOnce ==
    (report.made /\ report.query_ok) =>
        LET data == report.data
            Listed(rows, r) == {i \in DOMAIN rows : rows[i] = html_row(r)}
        IN  /\ \A i \in DOMAIN data :
                  /\ Cardinality(Listed(report.confirmed_rows, data[i]))
                        = BoolInt(data[i].is_ready)
                  /\ Cardinality(Listed(report.potential_rows, data[i]))
                        = BoolInt(~data[i].is_ready)
            /\ Len(report.confirmed_rows) + Len(report.potential_rows) = Len(data)
            /\ Len(report.confirmed_rows) = report.ready_count

=============================================================================
